---- MODULE Spec2Model ----
(***************************************************************************)
(* The static-site event logger of MaxAccountsWeb.                         *)
(*                                                                         *)
(* Two scripts define window.StaticLogger:                                 *)
(*   "batch"  : src/unnamed/part_002  (entries, pendingEntries, batchTimer,*)
(*              batches POSTed to config.apiEndpoint, re-queue on failure) *)
(*   "simple" : src/js/static-logger.js (logs only, no queue, no network)  *)
(* A page loads one of them; both keep their log in the localStorage slot  *)
(* 'static_site_logs'.  The model follows one page load: construction,     *)
(* init(), capture calls, timer callbacks, flush() calls and the           *)
(* settling of the fetch promises.  init() runs when the DOM is ready and  *)
(* the page uses the logger after that; a page that calls init() again is  *)
(* the matter of SpecTimer.                                                *)
(*                                                                         *)
(* A third script, src/unnamed/part_000, defines window.contentModal; it    *)
(* shares nothing with the logger and is the matter of SpecModal.          *)
(*                                                                         *)
(* Specifications:                                                         *)
(*   Spec          local logging, both scripts, calls without data         *)
(*   SpecData      local logging with data arguments                       *)
(*   SpecMalformed local logging over a slot the logger did not write      *)
(*   SpecSend      batching: flush, timer, settling requests, clear        *)
(*   SpecTimer     init() and startBatchTimer() called again and again     *)
(*   SpecTabs      two pages in two tabs sharing the slot                  *)
(*   SpecLive      a page left open, with fairness                         *)
(*   SpecModal     the content modal: show() calls and their fetches       *)
(*                                                                         *)
(* The slot holds what an earlier page load of the same script left there  *)
(* (nothing, or a JSON array of entries) and the storage API either works  *)
(* or throws on every call.  A slot that something else has written (text  *)
(* that is no JSON, or JSON that is no array) is the matter of             *)
(* SpecMalformed; two pages that share the slot are the matter of SpecTabs.*)
(***************************************************************************)
EXTENDS Naturals, Sequences, FiniteSets

VARIABLES
    variant,         \* which script the page loads: "batch" or "simple"; "both"
                     \* when two pages of the site are open in two tabs, one
                     \* with each script (they share the slot)
    config,          \* part_002: config (apiEndpoint, trackPageViews, maxBatchSize)
    entries,         \* part_002: StaticLogger.entries (durable log)
    pendingEntries,  \* part_002: StaticLogger.pendingEntries
    batchTimer,      \* part_002: StaticLogger.batchTimer (0 = null)
    logs,            \* static-logger.js: StaticLogger.logs (durable log)
    storage,         \* localStorage: [throws, present, format, value] for STORAGE_KEY
    intervals,       \* browser: handles of the active setInterval timers
    inflight,        \* browser: the batches (entriesToSend) of the fetch promise chains
                     \* not settled yet
    counters,        \* [seq, made, inited]: entries created so far, the scripts
                     \* whose init() has run
    history,         \* ghost: [created, delivered, loaded, calls, pure, cleared]
    last,            \* ghost: the operation that ran last and what it did
    modal            \* part_000: the content modal [element, ready, shown, title,
                     \* body, fetches, shows, pre]

vars == <<variant, config, entries, pendingEntries, batchTimer, logs, storage,
          intervals, inflight, counters, history, last, modal>>

----------------------------------------------------------------------------
(* Program constants *)

MAX_ENTRIES == 100

MAX_LOGS == 100

\* the longest stack part_002 stores: error.stack.substring(0, 500)
StackLimit == 500

(* Bounds of the model *)

MaxCaptures == 2    \* entries created during the page load

MaxBatch == 2       \* largest configured maxBatchSize

MaxShows == 2       \* show() calls and trigger clicks of the content modal

----------------------------------------------------------------------------
(* Entries.  seq is the creation sequence (the identity of the object the  *)
(* code builds: generateId() + timestamp); type/level/message are the      *)
(* fields the two scripts set.                                             *)

\* The data of an entry: what kind of value it is and, for the data the
\* error hooks build, the length of its stack (0: no stack is stored, which
\* is null in part_002 and undefined in static-logger.js).
\*   "null"   : `data || null` of a call without data
\*   "plain"  : an object that JSON writes and reads back as it is
\*   "lossy"  : an object holding a value JSON writes as something else
\*              (a Date, NaN, a Map)
\*   "cyclic" : an object that refers to itself: JSON.stringify throws
\*   "error", "rejection" : the objects handleError / logError and
\*              handlePromiseRejection build
Data(kind, stack) == [kind |-> kind, stack |-> stack]

NoData == Data("null", 0)

\* the data a page can pass to log(message, data) / info(message, data)
DataArgs == {Data("plain", 0), Data("lossy", 0), Data("cyclic", 0)}

\* the entry of a call without data
MakeEntry(seq, type, level, message) ==
    [seq |-> seq, type |-> type, level |-> level, message |-> message,
     data |-> NoData]

\* data: data
WithData(e, data) == [e EXCEPT !.data = data]

\* what a call returns when its code has no return statement
Undefined == MakeEntry(0, "undefined", "undefined", "undefined")

\* the log an earlier page load left in the slot
PriorLog(n) == [i \in 1..n |-> MakeEntry(i, "log", "INFO", "msg")]

PriorLens == {0, MAX_ENTRIES - 1}

\* what JSON.stringify writes for the data of an entry: a lossy value is
\* written as some other JSON value
JSONdata(d) == IF d.kind = "lossy" THEN Data("plain", d.stack) ELSE d

\* JSON.stringify throws on a cyclic value
Stringifiable(es) == \A i \in 1..Len(es) : es[i].data.kind # "cyclic"

\* JSON.stringify / JSON.parse of an array of entries: the text is modelled
\* as the sequence of the entries' field tuples
JSONstringify(es) ==
    [i \in 1..Len(es) |->
        <<es[i].seq, es[i].type, es[i].level, es[i].message, JSONdata(es[i].data)>>]

JSONparse(txt) ==
    [i \in 1..Len(txt) |->
        WithData(MakeEntry(txt[i][1], txt[i][2], txt[i][3], txt[i][4]), txt[i][5])]

\* Array.prototype.slice(-n)
SliceLast(s, n) ==
    IF Len(s) <= n THEN s ELSE SubSeq(s, Len(s) - n + 1, Len(s))

\* Array.prototype.splice(0, n): <<removed, rest>>
SpliceFront(s, n) ==
    IF Len(s) <= n THEN <<s, <<>>>>
    ELSE <<SubSeq(s, 1, n), SubSeq(s, n + 1, Len(s))>>

----------------------------------------------------------------------------
(* localStorage *)

\* The value JSON.parse returns for a text that is JSON but no array (an
\* object, a number, a string, null).  It has no push and no array length;
\* the model keeps it as this marker, which only IsArray reads.
NonArray == <<MakeEntry(0, "nonarray", "nonarray", "nonarray")>>

IsArray(v) == v # NonArray

\* the entries of a value that is an array
Items(v) == IF IsArray(v) THEN v ELSE <<>>

\* part_002 loadFromStorage / static-logger.js loadLogs: the value that is
\* assigned to the durable log
loadFromStorage(st) ==
    IF st.throws THEN <<>>                       \* catch (e) { entries = [] }
    ELSE IF ~st.present THEN <<>>                \* stored ? ... : []
    ELSE IF st.format = "garbage" THEN <<>>      \* JSON.parse throws: catch
    ELSE IF st.format = "object" THEN NonArray   \* JSON.parse(stored)
    ELSE JSONparse(st.value)

\* an eviction from the wrong end: entries.slice(0, MAX_ENTRIES)
EvictNewest(es) ==
    IF Len(es) > MAX_ENTRIES THEN SubSeq(es, 1, MAX_ENTRIES) ELSE es

\* a cap that is never applied
EvictNothing(es) == es

\* an eviction that cuts one entry too many: entries.slice(-MAX_ENTRIES + 1)
EvictOneMore(es) ==
    IF Len(es) > MAX_ENTRIES THEN SliceLast(es, MAX_ENTRIES - 1) ELSE es

\* the eviction inside saveToStorage
Evict(es) ==
    IF Len(es) > MAX_ENTRIES THEN SliceLast(es, MAX_ENTRIES) ELSE es

\* a write that leaves a slot that is already there alone
keepItem(st, es) ==
    IF st.throws \/ st.present THEN st
    ELSE [st EXCEPT !.present = TRUE, !.format = "array", !.value = JSONstringify(es)]

\* localStorage.setItem(STORAGE_KEY, JSON.stringify(es)) inside try/catch:
\* the slot stays as it is when stringify or setItem throws
setItem(st, es) ==
    IF st.throws \/ ~Stringifiable(es) THEN st
    ELSE [st EXCEPT !.present = TRUE, !.format = "array", !.value = JSONstringify(es)]

\* saveToStorage: the durable log and the slot after the call
saveToStorage(es, st) ==
    [entries |-> Evict(es), storage |-> setItem(st, Evict(es))]

\* static-logger.js saveLogs
EvictLogs(ls) ==
    IF Len(ls) > MAX_LOGS THEN SliceLast(ls, MAX_LOGS) ELSE ls

saveLogs(ls, st) ==
    [logs |-> EvictLogs(ls), storage |-> setItem(st, EvictLogs(ls))]

----------------------------------------------------------------------------
(* Ghost state *)

NoResp == [net |-> "none", status |-> 0, body |-> "none"]

\* what the last operation did: its name, its return value, whether an
\* exception reached its caller, and (when a request settled) the response
Did(op, ret, threw, resp) == [op |-> op, ret |-> ret, threw |-> threw, resp |-> resp]

Nothing == Did("none", Undefined, FALSE, NoResp)

SeqsOf(s) == {s[i].seq : i \in 1..Len(s)}

\* the calls the page makes to log a message
LogCalls == {"log", "logError", "info", "warn", "error"}

\* the ghost record when operation op has created entry e: created is what
\* was loaded or created since the last load or clear, calls counts the
\* LogCalls since init, pure tells that nothing but LogCalls ran since init
Created(h, e, op) ==
    [h EXCEPT !.created = Append(@, e),
              !.calls = IF op \in LogCalls THEN @ + 1 ELSE @,
              !.pure = @ /\ (op \in LogCalls \/ op \in {"init", "initSimple"})]

\* the ghost record when init has loaded the durable log
Loaded(h, loaded) ==
    [h EXCEPT !.created = loaded, !.loaded = Len(loaded), !.calls = 0, !.pure = TRUE]

\* the ghost record after clear: cleared is the creation sequence of the last
\* entry created before the clear
Cleared(h) ==
    [h EXCEPT !.created = <<>>, !.pure = FALSE, !.cleared = counters.seq - 1]

----------------------------------------------------------------------------
(* Construction: the object literal of either script, the merged config,   *)
(* and what the browser holds when the script starts.                      *)

\* defaultConfig.maxBatchSize
DefaultMaxBatchSize == 20

\* a page that configures an endpoint chooses its batch size
Configs ==
    [apiEndpoint : BOOLEAN, trackPageViews : BOOLEAN, maxBatchSize : 1..MaxBatch]

\* a page that configures no endpoint: sending is disabled
LocalConfigs ==
    [apiEndpoint : {FALSE}, trackPageViews : BOOLEAN,
     maxBatchSize : {DefaultMaxBatchSize}]

\* the simple script has no configuration: it always logs the page view and
\* never sends
SimpleConfig ==
    [apiEndpoint |-> FALSE, trackPageViews |-> TRUE, maxBatchSize |-> DefaultMaxBatchSize]

\* the slot an earlier page load left: n entries, or nothing
Slot(throws, n) ==
    [throws |-> throws, present |-> n > 0, format |-> "array",
     value |-> JSONstringify(PriorLog(n))]

\* a slot whose text is no JSON ("garbage") or JSON that is no array ("object")
MalformedSlot(format) ==
    [throws |-> FALSE, present |-> TRUE, format |-> format, value |-> <<>>]

\* what the modal body holds: kind is "empty" (the markup of the page),
\* "loading", "content", "error" or "prerendered"; id is the content id it
\* belongs to and req the number of the show() call it answers (0: none)
Body(kind, id, req) == [kind |-> kind, id |-> id, req |-> req]

\* part_000 before init: modal = null, isInitialized = false; element tells
\* whether the page has the #contentDetailModal element
ModalState(element) ==
    [element |-> element, ready |-> FALSE, shown |-> FALSE, title |-> "none",
     body |-> Body("empty", "none", 0), fetches |-> {}, shows |-> 0, pre |-> FALSE]

\* the page of the logger specifications has no modal element
NoModal == ModalState(FALSE)

\* an object whose pending queue is rebuilt from the slot
ConstructedQueued(slot, seq) ==
    /\ entries = <<>>
    /\ pendingEntries = loadFromStorage(slot)
    /\ batchTimer = 0
    /\ logs = <<>>
    /\ storage = slot
    /\ counters = [seq |-> seq, made |-> 0, inited |-> {}]
    /\ intervals = {}
    /\ inflight = {}
    /\ history = [created |-> <<>>, delivered |-> {}, loaded |-> 0, calls |-> 0,
                  pure |-> TRUE, cleared |-> 0]
    /\ last = Nothing
    /\ modal = NoModal

\* the object literal, in a browser whose slot is slot and where seq - 1
\* entries were created by earlier page loads
ConstructedWith(slot, seq) ==
    /\ entries = <<>>
    /\ pendingEntries = <<>>
    /\ batchTimer = 0
    /\ logs = <<>>
    /\ storage = slot
    /\ counters = [seq |-> seq, made |-> 0, inited |-> {}]
    /\ intervals = {}
    /\ inflight = {}
    /\ history = [created |-> <<>>, delivered |-> {}, loaded |-> 0, calls |-> 0,
                  pure |-> TRUE, cleared |-> 0]
    /\ last = Nothing
    /\ modal = NoModal

Constructed ==
    \E n \in PriorLens, t \in BOOLEAN :
        /\ t => n = 0        \* no slot to speak of when the API throws
        /\ ConstructedWith(Slot(t, n), n + 1)

\* a page that logs locally, with either script
Init ==
    /\ variant \in {"batch", "simple"}
    /\ config \in (IF variant = "batch" THEN LocalConfigs ELSE {SimpleConfig})
    /\ Constructed

\* a page that loads the batching script, with or without an endpoint
InitSend ==
    /\ variant = "batch"
    /\ config \in Configs
    /\ Constructed

\* a page whose slot holds something the logger did not write
InitMalformed ==
    /\ variant \in {"batch", "simple"}
    /\ config \in (IF variant = "batch" THEN LocalConfigs ELSE {SimpleConfig})
    /\ \E format \in {"garbage", "object"} : ConstructedWith(MalformedSlot(format), 1)

\* a page that configures an endpoint
InitLive ==
    /\ variant = "batch"
    /\ config \in Configs
    /\ config.apiEndpoint
    /\ Constructed

\* two tabs of one browser: a page with the batching script and a page with
\* the simple script; both use the slot 'static_site_logs'
InitTabs ==
    /\ variant = "both"
    /\ config \in LocalConfigs
    /\ Constructed

\* the page (or one of the two pages that share the slot) loads script v
Runs(v) == variant \in {v, "both"}

\* init() of script v has run
Inited(v) == v \in counters.inited

----------------------------------------------------------------------------
(* part_002: capture *)

CanCapture == counters.made < MaxCaptures

\* Array.prototype.unshift
unshift(arr, e) == <<e>> \o arr

\* Array.prototype.push
push(arr, e) == Append(arr, e)

\* value of `return entry;` in log and logError
ReturnEntry(e) == e

\* entries.push(entry); pendingEntries.push(entry); saveToStorage();
\* (this.entries.push throws a TypeError when entries is no array)
Capture(op, e, ret) ==
    LET saved == saveToStorage(push(entries, e), storage) IN
    IF IsArray(entries)
    THEN /\ entries' = saved.entries
         /\ pendingEntries' = push(pendingEntries, e)
         /\ storage' = saved.storage
         /\ counters' = [counters EXCEPT !.seq = @ + 1, !.made = @ + 1]
         /\ history' = Created(history, e, op)
         /\ last' = Did(op, ret, FALSE, NoResp)
         /\ UNCHANGED <<modal, variant, config, batchTimer, logs, intervals, inflight>>
    ELSE /\ last' = Did(op, Undefined, TRUE, NoResp)
         /\ UNCHANGED <<modal, variant, config, entries, pendingEntries, batchTimer, logs,
                        storage, intervals, inflight, counters, history>>

PageViewEntry == MakeEntry(counters.seq, "pageview", "none", "none")

trackPageView ==
    /\ Runs("batch")
    /\ Inited("batch")
    /\ CanCapture
    /\ Capture("trackPageView", PageViewEntry, Undefined)

log ==
    /\ Runs("batch")
    /\ Inited("batch")
    /\ CanCapture
    /\ LET e == MakeEntry(counters.seq, "log", "INFO", "msg")
       IN  Capture("log", e, ReturnEntry(e))

\* log(message, data) with a data argument
logData ==
    /\ Runs("batch")
    /\ Inited("batch")
    /\ CanCapture
    /\ \E d \in DataArgs :
          LET e == WithData(MakeEntry(counters.seq, "log", "INFO", "msg"), d)
          IN  Capture("log", e, ReturnEntry(e))

ErrorEntry(message) == MakeEntry(counters.seq, "error", "ERROR", message)

logError ==
    /\ Runs("batch")
    /\ Inited("batch")
    /\ CanCapture
    /\ Capture("logError", ErrorEntry("msg"), ReturnEntry(ErrorEntry("msg")))

\* the lengths of the stack of the error object the browser hands to a hook
\* (0: no error object, or one without a stack)
StackLens == {0, StackLimit, StackLimit + 1}

\* the length of s.substring(0, end) for a string of length len
substring(len, end) == IF len > end THEN end ELSE len

\* error && error.stack ? error.stack.substring(0, 500) : null
StoredStack(len) == substring(len, StackLimit)

\* the value handleError returns to the browser
ReturnFalse == MakeEntry(0, "false", "false", "false")

\* window.onerror, installed by init; returns false
handleError ==
    /\ Runs("batch")
    /\ Inited("batch")
    /\ CanCapture
    /\ \E len \in StackLens :
          Capture("handleError",
                  WithData(ErrorEntry("JavaScript Error: msg"),
                           Data("error", StoredStack(len))),
                  ReturnFalse)

\* window.onunhandledrejection, installed by init; no return value
handlePromiseRejection ==
    /\ Runs("batch")
    /\ Inited("batch")
    /\ CanCapture
    /\ \E len \in StackLens :
          Capture("handlePromiseRejection",
                  WithData(ErrorEntry("Unhandled Promise Rejection"),
                           Data("rejection", StoredStack(len))),
                  Undefined)

----------------------------------------------------------------------------
(* part_002: timer *)

\* a restart that forgets to cancel
keepInterval(active, handle) == active

\* the timers left after `if (this.batchTimer) clearInterval(this.batchTimer)`
clearInterval(active, handle) == IF handle # 0 THEN active \ {handle} ELSE active

\* the handle setInterval returns: a number that names no active timer
\* (handles are opaque: the least such number stands for the fresh one)
setInterval(active) ==
    CHOOSE h \in 1..(Cardinality(active) + 1) :
        /\ h \notin active
        /\ \A k \in 1..(h - 1) : k \in active

startBatchTimer ==
    /\ Runs("batch")
    /\ Inited("batch")
    /\ batchTimer' = setInterval(clearInterval(intervals, batchTimer))
    /\ intervals' = clearInterval(intervals, batchTimer) \cup {batchTimer'}
    /\ last' = Did("startBatchTimer", Undefined, FALSE, NoResp)
    /\ UNCHANGED <<modal, variant, config, entries, pendingEntries, logs, storage, inflight,
                   history, counters>>

----------------------------------------------------------------------------
(* part_002: init *)

\* init(): loadFromStorage(); trackPageView() when configured (its push
\* throws when the loaded value is no array, and init ends there); the hooks;
\* startBatchTimer() when an endpoint is configured
initBody ==
    LET loaded == loadFromStorage(storage)
        e      == PageViewEntry
        tracks == config.trackPageViews /\ IsArray(loaded)
        threw  == config.trackPageViews /\ ~IsArray(loaded)
        saved  == IF tracks
                  THEN saveToStorage(push(loaded, e), storage)
                  ELSE [entries |-> loaded, storage |-> storage]
    IN  /\ config.trackPageViews => CanCapture
        /\ entries' = saved.entries
        /\ storage' = saved.storage
        /\ pendingEntries' = IF tracks THEN push(pendingEntries, e) ELSE pendingEntries
        /\ history' = IF tracks
                      THEN Created(Loaded(history, loaded), e, "init")
                      ELSE Loaded(history, Items(loaded))
        /\ counters' = [counters EXCEPT
               !.inited = @ \cup {"batch"},
               !.seq = IF tracks THEN @ + 1 ELSE @,
               !.made = IF tracks THEN @ + 1 ELSE @]
        /\ last' = Did("init", Undefined, threw, NoResp)
        /\ IF config.apiEndpoint /\ ~threw
           THEN /\ batchTimer' = setInterval(clearInterval(intervals, batchTimer))
                /\ intervals' = clearInterval(intervals, batchTimer) \cup {batchTimer'}
           ELSE UNCHANGED <<batchTimer, intervals>>
        /\ UNCHANGED <<modal, variant, config, logs, inflight>>

\* init() when the DOM is ready
init ==
    /\ Runs("batch")
    /\ ~Inited("batch")
    /\ initBody

\* init() called again by the page
initAgain ==
    /\ Runs("batch")
    /\ Inited("batch")
    /\ initBody

----------------------------------------------------------------------------
(* part_002: sending *)

\* a guard that forgets the empty queue
NoEndpoint(cfg, pend) == ~cfg.apiEndpoint

\* the guard of sendPendingData: TRUE when it returns at once
NothingToSend(cfg, pend) == ~cfg.apiEndpoint \/ Len(pend) = 0

\* a batch that takes the whole queue: pendingEntries.splice(0)
TakeAll(pend, cfg) == <<pend, <<>>>>

\* a copy instead of a removal: pendingEntries.slice(0, config.maxBatchSize)
CopyBatch(pend, cfg) == <<SpliceFront(pend, cfg.maxBatchSize)[1], pend>>

\* pendingEntries.splice(0, config.maxBatchSize): <<entriesToSend, what stays>>
TakeBatch(pend, cfg) == SpliceFront(pend, cfg.maxBatchSize)

sendPendingData(op) ==
    /\ Runs("batch")
    /\ Inited("batch")
    /\ IF NothingToSend(config, pendingEntries)
       THEN UNCHANGED <<pendingEntries, inflight>>
       ELSE LET sp == TakeBatch(pendingEntries, config)
            IN  /\ pendingEntries' = sp[2]
                /\ inflight' = inflight \cup {sp[1]}
    /\ last' = Did(op, Undefined, FALSE, NoResp)
    /\ UNCHANGED <<modal, variant, config, entries, batchTimer, logs, storage, intervals,
                   counters, history>>

\* flush(), called by the page or by the beforeunload listener
flush == sendPendingData("flush")

\* the setInterval callback of an active timer
timerFires == \E h \in intervals : sendPendingData("timer")

\* what the network and the server can answer to the POST.  fetch rejects on
\* a network failure; otherwise it resolves with a status and a body, whose
\* JSON value is null, or an object whose success property is true, false
\* or missing, or which is not JSON at all.
Bodies == {"true", "false", "missing", "null", "unparseable"}

Responses ==
    {[net |-> "fail", status |-> 0, body |-> "none"]}
    \cup [net : {"ok"}, status : {200, 500}, body : Bodies]

\* sendToApi: the value its promise resolves to (it never rejects): the
\* parsed body, or {success: false} from its catch
sendToApi(resp) ==
    IF resp.net = "fail" THEN "false"              \* fetch rejected
    ELSE IF resp.body = "unparseable" THEN "false" \* response.json() rejected
    ELSE resp.body

\* handlers that re-queue whatever the answer is
RequeuesAlways(value) == TRUE

\* the then/catch of sendPendingData: TRUE when the batch is re-queued.
\* Reading .success of null throws inside then, which the catch handles.
Requeues(value) ==
    IF value = "null" THEN TRUE
    ELSE value \in {"false", "missing"}            \* !response.success

\* a re-queue at the back: self.pendingEntries.concat(entriesToSend)
RequeueAtBack(batch, pend) == pend \o batch

\* entriesToSend.concat(self.pendingEntries)
Requeue(batch, pend) == batch \o pend

\* the promise chain of one request settles: fetch, json(), then/catch.
\* Nothing of the logger is read or written between the fetch call and the
\* then/catch callback, so the chain is one step, taken at any later time.
settle ==
    \E batch \in inflight, resp \in Responses :
        LET again == Requeues(sendToApi(resp)) IN
        /\ inflight' = inflight \ {batch}
        /\ pendingEntries' = IF again THEN Requeue(batch, pendingEntries)
                             ELSE pendingEntries
        /\ history' = IF again THEN history
                      ELSE [history EXCEPT !.delivered = @ \cup SeqsOf(batch)]
        /\ last' = Did("settle", Undefined, FALSE, resp)
        /\ UNCHANGED <<modal, variant, config, entries, batchTimer, logs, storage, intervals,
                       counters>>

----------------------------------------------------------------------------
(* part_002: clear *)

\* a clear that leaves the slot as it is
removeNothing(st) == st

\* localStorage.removeItem(STORAGE_KEY), outside any try
removeItem(st) ==
    IF st.throws THEN st
    ELSE [st EXCEPT !.present = FALSE, !.format = "array", !.value = <<>>]

clear ==
    /\ Runs("batch")
    /\ Inited("batch")
    /\ entries' = <<>>
    /\ pendingEntries' = <<>>
    /\ storage' = removeItem(storage)
    /\ history' = Cleared(history)
    /\ last' = Did("clear", Undefined, storage.throws, NoResp)
    /\ UNCHANGED <<modal, variant, config, batchTimer, logs, intervals, inflight, counters>>

----------------------------------------------------------------------------
(* static-logger.js *)

\* log(level, message, data): logs.push(entry); saveLogs(); no return value
\* (ret is what the method that called it returns; logs.push throws a
\* TypeError when logs is no array)
logSimple(op, level, message, data, ret) ==
    LET e == WithData(MakeEntry(counters.seq, "absent", level, message), data)
        saved == saveLogs(push(logs, e), storage)
    IN  /\ Runs("simple")
        /\ Inited("simple")
        /\ CanCapture
        /\ IF IsArray(logs)
           THEN /\ logs' = saved.logs
                /\ storage' = saved.storage
                /\ counters' = [counters EXCEPT !.seq = @ + 1, !.made = @ + 1]
                /\ history' = Created(history, e, op)
                /\ last' = Did(op, ret, FALSE, NoResp)
           ELSE /\ last' = Did(op, Undefined, TRUE, NoResp)
                /\ UNCHANGED <<logs, storage, counters, history>>
        /\ UNCHANGED <<modal, variant, config, entries, pendingEntries, batchTimer, intervals,
                       inflight>>

info == logSimple("info", "INFO", "msg", NoData, Undefined)

\* info(message, data) with a data argument
infoData == \E d \in DataArgs : logSimple("info", "INFO", "msg", d, Undefined)

warn == logSimple("warn", "WARN", "msg", NoData, Undefined)

error == logSimple("error", "ERROR", "msg", NoData, Undefined)

\* the data of the page view: path, referrer, screen size
PageViewData == Data("plain", 0)

logPageView == logSimple("logPageView", "INFO", "Page View", PageViewData, Undefined)

\* stack: error?.stack
StoredStackSimple(len) == len

\* window.onerror after init, and a method of the object; returns false
logErrorSimple ==
    \E len \in StackLens :
        logSimple("logErrorSimple", "ERROR", "JavaScript Error",
                  Data("error", StoredStackSimple(len)), ReturnFalse)

\* init: loadLogs(); logPageView(); window.onerror = ...
initSimple ==
    LET loaded == loadFromStorage(storage)
        e == WithData(MakeEntry(counters.seq, "absent", "INFO", "Page View"),
                      PageViewData)
        saved == saveLogs(push(loaded, e), storage)
    IN  /\ Runs("simple")
        /\ ~Inited("simple")
        /\ CanCapture
        /\ IF IsArray(loaded)
           THEN /\ logs' = saved.logs
                /\ storage' = saved.storage
                /\ counters' = [counters EXCEPT !.seq = @ + 1, !.made = @ + 1,
                                                !.inited = @ \cup {"simple"}]
                /\ history' = Created(Loaded(history, loaded), e, "initSimple")
                /\ last' = Did("initSimple", Undefined, FALSE, NoResp)
           ELSE /\ logs' = loaded
                /\ counters' = [counters EXCEPT !.inited = @ \cup {"simple"}]
                /\ history' = Loaded(history, Items(loaded))
                /\ last' = Did("initSimple", Undefined, TRUE, NoResp)
                /\ UNCHANGED storage
        /\ UNCHANGED <<modal, variant, config, entries, pendingEntries, batchTimer, intervals,
                       inflight>>

clearLogs ==
    /\ Runs("simple")
    /\ Inited("simple")
    /\ logs' = <<>>
    /\ storage' = removeItem(storage)
    /\ history' = Cleared(history)
    /\ last' = Did("clearLogs", Undefined, storage.throws, NoResp)
    /\ UNCHANGED <<modal, variant, config, entries, pendingEntries, batchTimer, intervals,
                   inflight, counters>>

----------------------------------------------------------------------------
(* part_000: the content modal.  A title is modelled by the content id it  *)
(* was passed for.                                                         *)

\* content ids the page asks for: "a" and "b" are fetched from the API, "p"
\* has a hidden element modal-content-p on the page
ContentIds == {"a", "b", "p"}

PreRenderedIds == {"p"}

\* how a request ends: response.ok, status 404, another status, or a
\* rejection of fetch / response.text()
Outcomes == {"content", "notfound", "failed", "network"}

loggerVars == <<variant, config, entries, pendingEntries, batchTimer, logs, storage,
                intervals, inflight, counters, history, last>>

\* a page with the modal script, with or without the modal element
InitModal ==
    /\ variant = "batch"
    /\ config = SimpleConfig
    /\ entries = <<>>
    /\ pendingEntries = <<>>
    /\ batchTimer = 0
    /\ logs = <<>>
    /\ storage = Slot(FALSE, 0)
    /\ counters = [seq |-> 1, made |-> 0, inited |-> {}]
    /\ intervals = {}
    /\ inflight = {}
    /\ history = [created |-> <<>>, delivered |-> {}, loaded |-> 0, calls |-> 0,
                  pure |-> TRUE, cleared |-> 0]
    /\ last = Nothing
    /\ \E element \in BOOLEAN : modal = ModalState(element)

\* init(): nothing when already initialized or when the element is missing
initialized(m) ==
    IF m.ready \/ ~m.element THEN m ELSE [m EXCEPT !.ready = TRUE]

\* init() when the DOM is ready
initModal ==
    /\ modal' = initialized(modal)
    /\ UNCHANGED loggerVars

\* what loadContent writes when its request ends: modalBody.innerHTML = html,
\* or showError(...)
Render(m, req, kind) == [m EXCEPT !.body = Body(kind, req.id, req.req)]

\* showModal(contentId, contentType, title)
showModal(id) ==
    LET m == initialized(modal)      \* if (!modal) init();
        n == modal.shows + 1
    IN  /\ modal.shows < MaxShows
        /\ modal' =
              IF ~m.ready
              THEN [m EXCEPT !.shows = n]              \* 'Modal not available'
              ELSE IF id \in PreRenderedIds
              THEN [m EXCEPT !.title = id,
                             !.body = Body("prerendered", id, n),
                             !.shown = TRUE, !.shows = n, !.pre = TRUE]
              ELSE [m EXCEPT !.title = id,              \* showLoading(title)
                             !.body = Body("loading", id, n),
                             !.shown = TRUE,            \* modal.show()
                             !.fetches = @ \cup {[req |-> n, id |-> id]},
                             !.shows = n]
        /\ UNCHANGED loggerVars

\* window.contentModal.show(contentId, contentType, title)
show == \E id \in ContentIds : showModal(id)

\* a click on a trigger element (the listener is installed by init); a
\* trigger without data-content-id is reported and ignored
handleModalTrigger ==
    /\ modal.ready
    /\ \E id \in ContentIds \cup {"none"} :
          IF id = "none"
          THEN UNCHANGED vars
          ELSE showModal(id)

\* window.contentModal.hide()
hide ==
    /\ modal' = IF modal.ready THEN [modal EXCEPT !.shown = FALSE] ELSE modal
    /\ UNCHANGED loggerVars

\* the rest of loadContent, after its awaits
loadContent ==
    \E req \in modal.fetches, kind \in Outcomes :
        /\ modal' = [Render(modal, req, kind) EXCEPT !.fetches = @ \ {req}]
        /\ UNCHANGED loggerVars

NextModal ==
    \/ initModal
    \/ handleModalTrigger
    \/ show
    \/ hide
    \/ loadContent

SpecModal == InitModal /\ [][NextModal]_vars

----------------------------------------------------------------------------
(* Reading the log.  A level of "" stands for a call without argument.     *)

\* part_002 getEntries: it declares no parameter and returns this.entries
getEntries(level) == entries

\* static-logger.js getLogs(level)
getLogs(level) ==
    IF level # "" THEN SelectSeq(logs, LAMBDA l : l.level = level) ELSE logs

----------------------------------------------------------------------------

\* local logging: every capture operation of both scripts, called without
\* a data argument
Next ==
    \/ init
    \/ trackPageView
    \/ log
    \/ logError
    \/ handleError
    \/ handlePromiseRejection
    \/ clear
    \/ initSimple
    \/ info
    \/ warn
    \/ error
    \/ logPageView
    \/ logErrorSimple
    \/ clearLogs

Spec == Init /\ [][Next]_vars

\* batching and sending: captures, timer, flushes and settling requests
NextSend ==
    \/ init
    \/ log
    \/ startBatchTimer
    \/ flush
    \/ timerFires
    \/ settle
    \/ clear

SpecSend == InitSend /\ [][NextSend]_vars

\* local logging with data arguments
NextData ==
    \/ init
    \/ log
    \/ logData
    \/ clear
    \/ initSimple
    \/ info
    \/ infoData
    \/ clearLogs

SpecData == Init /\ [][NextData]_vars

\* the timer: init at DOM ready, further init() and startBatchTimer() calls
\* of the page, captures, and the callbacks of the active timers
NextTimer ==
    \/ init
    \/ initAgain
    \/ startBatchTimer
    \/ log
    \/ timerFires

SpecTimer == InitSend /\ [][NextTimer]_vars

\* a page that is left open: init runs when the DOM is ready, the page logs,
\* the callback of the timer runs every batchInterval milliseconds, and
\* the promise of every request settles
NextLive ==
    \/ init
    \/ log
    \/ timerFires
    \/ settle

SpecLive ==
    /\ InitLive
    /\ [][NextLive]_vars
    /\ WF_vars(init)
    /\ WF_vars(timerFires)
    /\ WF_vars(settle)

\* two tabs: the operations of either page, in any interleaving
NextTabs ==
    \/ init
    \/ log
    \/ clear
    \/ initSimple
    \/ info
    \/ clearLogs

SpecTabs == InitTabs /\ [][NextTabs]_vars

\* local logging on a page whose slot the logger did not write
SpecMalformed == InitMalformed /\ [][Next]_vars

----------------------------------------------------------------------------
(* Properties *)

Min(a, b) == IF a <= b THEN a ELSE b

\* init() of the page's script has run
PageInited == counters.inited # {}

\* the durable log of the script the page loads
Durable == IF variant = "batch" THEN entries ELSE logs

\* the batches whose request settles in a step
Settling == inflight \ inflight'

SendOps == {"flush", "timer"}

\* C1: when the request of a batch settles with a network failure or with a
\* body whose success is false, the step puts the batch back at the front
\* of the pending queue, entries and order unchanged, ahead of everything
\* the queue holds (so ahead of what was captured since the flush), and no
\* flush and no settling lets an exception reach a caller.
FailedC1(resp) == resp.net = "fail" \/ (resp.net = "ok" /\ resp.body = "false")

C1_FailedBatchBackAtFront ==
    [][ /\ \A b \in Settling :
              FailedC1(last'.resp) =>
                 /\ pendingEntries' = b \o pendingEntries
                 /\ SubSeq(pendingEntries', 1, Len(b)) = b
        /\ last'.op \in SendOps \cup {"settle"} => ~last'.threw ]_vars

\* a failed batch of one entry is back in front of an entry that stayed queued
C1_Witness ==
    /\ last.op = "settle"
    /\ FailedC1(last.resp)
    /\ config.maxBatchSize = 1
    /\ Len(pendingEntries) = 2
    /\ pendingEntries[1].seq < pendingEntries[2].seq
    /\ inflight = {}

\* C2: in every reachable state the pending queue is ordered by creation
\* sequence, oldest first.
C2_PendingOrdered ==
    \A i, j \in 1..Len(pendingEntries) :
        i < j => pendingEntries[i].seq < pendingEntries[j].seq

\* C3: no entry is at once in the pending queue and in a batch in flight, or
\* in two batches in flight, or twice in the queue; and an entry whose batch
\* was confirmed is neither queued nor in flight again.  An entry is handed
\* to fetch only out of the pending queue, so it is sent again only after
\* its batch failed and was re-queued.
InFlightSeqs == UNION {SeqsOf(b) : b \in inflight}

C3_NoDoubleSend ==
    /\ \A i, j \in 1..Len(pendingEntries) :
          i # j => pendingEntries[i].seq # pendingEntries[j].seq
    /\ SeqsOf(pendingEntries) \cap InFlightSeqs = {}
    /\ \A a, b \in inflight : a # b => SeqsOf(a) \cap SeqsOf(b) = {}
    /\ \A b \in inflight : \A i, j \in 1..Len(b) : i # j => b[i].seq # b[j].seq
    /\ history.delivered \cap (SeqsOf(pendingEntries) \cup InFlightSeqs) = {}

\* two flushes overlap: two batches are in flight at once
C3_Witness ==
    /\ Cardinality(inflight) = 2
    /\ last.op \in SendOps

\* C4: once init has run, the durable log holds at most 100 entries and is
\* the most recent min(k, 100) of the k entries loaded or created since the
\* last load or clear, in insertion order.
C4_DurableIsMostRecent ==
    PageInited =>
        /\ Len(Durable) <= MAX_ENTRIES
        /\ Len(Durable) = Min(Len(history.created), MAX_ENTRIES)
        /\ Durable = SliceLast(history.created, MAX_ENTRIES)

\* 101 entries were loaded or created, the oldest was evicted and the log
\* begins with the second
C4_Witness ==
    /\ Len(history.created) = MAX_ENTRIES + 1
    /\ Len(Durable) = MAX_ENTRIES
    /\ Durable[1] = history.created[2]
    /\ Durable[MAX_ENTRIES] = history.created[MAX_ENTRIES + 1]

\* C5 as stated: after init with trackPageViews enabled and N log calls, the
\* durable log holds min(N + 1, 100) entries.
C5_LengthIgnoringLoaded ==
    (PageInited /\ config.trackPageViews /\ history.pure) =>
        Len(Durable) = Min(history.calls + 1, MAX_ENTRIES)

\* C5 amended: after init with trackPageViews enabled, which loaded L entries
\* from storage, and N log calls, the durable log holds min(L + N + 1, 100).
C5_LengthCountsLoaded ==
    (PageInited /\ config.trackPageViews /\ history.pure) =>
        Len(Durable) = Min(history.loaded + history.calls + 1, MAX_ENTRIES)

\* 99 entries were loaded, init logged the page view, and a log call made
\* the log overflow
C5_Witness ==
    /\ PageInited /\ config.trackPageViews /\ history.pure
    /\ history.loaded = MAX_ENTRIES - 1
    /\ history.calls >= 1
    /\ Len(Durable) = MAX_ENTRIES

\* a capture call after init creates an entry in this step
Capturing == PageInited /\ counters'.made # counters.made

\* the entry the step creates
NewEntry == history'.created[Len(history'.created)]

\* what the step does with the entry, whichever script runs: one entry, with
\* a fresh creation sequence, at the end of the durable log (the oldest
\* entries beyond 100 evicted)
AppendsToDurable ==
    /\ counters'.made = counters.made + 1
    /\ NewEntry.seq = counters.seq
    /\ NewEntry.seq \notin SeqsOf(Durable) \cup SeqsOf(pendingEntries)
    /\ Durable' = SliceLast(Append(Durable, NewEntry), MAX_ENTRIES)

C7_FlushTakesOldestBatch ==
    [][ (last'.op \in SendOps /\ config.apiEndpoint /\ Len(pendingEntries) > 0) =>
          LET n == Len(pendingEntries)
              k == Min(config.maxBatchSize, n)
          IN  /\ SubSeq(pendingEntries, 1, k) \notin inflight
              /\ inflight' = inflight \cup {SubSeq(pendingEntries, 1, k)}
              /\ pendingEntries' = SubSeq(pendingEntries, k + 1, n) ]_vars

\* a flush took a batch of maxBatchSize entries and left one queued
C7_Witness ==
    /\ last.op = "flush"
    /\ config.maxBatchSize = 1
    /\ Len(pendingEntries) = 1
    /\ \E b \in inflight : Len(b) = 1 /\ b[1].seq < pendingEntries[1].seq

\* C8: a flush (or timer callback) with an empty pending queue or without an
\* endpoint changes nothing of the logger, the slot or the timers and hands
\* nothing to fetch.
C8_EmptyFlushIsNoOp ==
    [][ (last'.op \in SendOps /\ (~config.apiEndpoint \/ Len(pendingEntries) = 0)) =>
          UNCHANGED <<entries, pendingEntries, storage, batchTimer, intervals,
                      inflight, logs, config, history, counters>> ]_vars

\* flush() returned with entries queued and no endpoint: nothing is in flight
C8_Witness ==
    /\ last.op = "flush"
    /\ ~config.apiEndpoint
    /\ Len(pendingEntries) = 2
    /\ inflight = {}

\* C9: a flush, a timer callback and the settling of a request, confirmed or
\* failed, leave the durable log and the slot as they are; after init an
\* entry leaves the durable log only in a clear or as the oldest entry of a
\* full log when a capture appends a new one.
C9_SendingKeepsDurableLog ==
    [][ /\ (last'.op \in SendOps \cup {"settle"} /\ last' # last) =>
              UNCHANGED <<entries, storage>>
        /\ (PageInited /\ ~(SeqsOf(entries) \subseteq SeqsOf(entries'))) =>
              \/ last'.op = "clear" /\ entries' = <<>>
              \/ /\ counters'.made = counters.made + 1
                 /\ Len(entries) = MAX_ENTRIES
                 /\ Len(entries') = MAX_ENTRIES
                 /\ SubSeq(entries', 1, MAX_ENTRIES - 1) = SubSeq(entries, 2, MAX_ENTRIES)
      ]_vars

\* a confirmed entry is still in the durable log and in the slot
C9_Witness ==
    /\ last.op = "settle"
    /\ history.delivered # {}
    /\ history.delivered \subseteq SeqsOf(entries)
    /\ storage.present
    /\ JSONparse(storage.value) = entries

\* C10: every unsuccessful outcome of a request re-queues the batch: a
\* network failure, a status that is not 2xx, a body that is not JSON, a
\* body whose success is not true.
Unsuccessful(resp) ==
    \/ resp.net = "fail"
    \/ resp.status # 200
    \/ resp.body # "true"

C10_EveryFailureRequeues ==
    [][ \A b \in Settling :
           Unsuccessful(last'.resp) => pendingEntries' = b \o pendingEntries ]_vars

\* what the page reads with getEntries(level) / getLogs(level)
Returned(level) == IF variant = "batch" THEN getEntries(level) ELSE getLogs(level)

\* C11: when clear (part_002) or clearLogs (static-logger.js) has run, the
\* durable log and the pending queue are empty, getEntries() returns the
\* empty sequence, the slot holds nothing and a load from storage yields an
\* empty durable log.
C11_ClearEmptiesEverything ==
    last.op \in {"clear", "clearLogs"} =>
        /\ Durable = <<>>
        /\ pendingEntries = <<>>
        /\ Returned("") = <<>>
        /\ ~storage.present
        /\ loadFromStorage(storage) = <<>>

\* clear ran on a page that had loaded 99 entries and created two, with a
\* working storage API
C11_Witness ==
    /\ last.op = "clear"
    /\ ~storage.throws
    /\ history.loaded = MAX_ENTRIES - 1
    /\ counters.made >= 2
    /\ entries = <<>>

\* C13: when the storage API throws, no operation lets the exception reach
\* its caller.
C13_StorageFailureNeverSurfaces == storage.throws => ~last.threw

Levels == {"INFO", "WARN", "ERROR"}

\* C15: getEntries(level) returns the entries of the durable log whose level
\* is the given one, in their order, and getEntries() returns the whole
\* durable log.
C15_GetEntriesFiltersByLevel ==
    /\ Returned("") = Durable
    /\ \A level \in Levels :
          Returned(level) = SelectSeq(Durable, LAMBDA e : e.level = level)

\* C20: no entry created before the last clear is in the pending queue or in
\* a batch handed to fetch after that clear.
C20_ClearedEntriesStayGone ==
    \A i \in 1..Len(pendingEntries) : pendingEntries[i].seq > history.cleared

CaptureOps ==
    {"init", "trackPageView", "log", "logError", "handleError",
     "handlePromiseRejection", "initSimple", "info", "warn", "error",
     "logPageView", "logErrorSimple"}

\* C12: with a working storage API, when a capture operation has completed
\* the slot holds the text of the current durable log, and parsing it (the
\* load of a fresh page) yields the durable log itself, entry by entry and
\* field by field.
C12_SlotRoundTrips ==
    (~storage.throws /\ last.op \in CaptureOps /\ Durable # <<>>) =>
        /\ storage.present
        /\ Len(storage.value) = Len(Durable)
        /\ loadFromStorage(storage) = Durable

\* the hooks the browser calls on an uncaught error / unhandled rejection
ErrorHooks == {"handleError", "logErrorSimple"}

RejectionHooks == {"handlePromiseRejection"}

\* C17: a step of the uncaught-error hook records one ERROR entry whose
\* message starts with the fixed prefix and whose data holds the error
\* location and a stack that is absent or at most 500 characters long, and
\* returns false; a step of the rejection hook records one ERROR entry with
\* the reason and a stack that is absent or at most 500 characters long.
C17_HooksRecordOneErrorEntry ==
    [][ (last'.op \in ErrorHooks \cup RejectionHooks /\ last' # last) =>
          /\ AppendsToDurable
          /\ NewEntry.level = "ERROR"
          /\ NewEntry.data.stack <= StackLimit
          /\ last'.op \in ErrorHooks =>
                /\ NewEntry.data.kind = "error"
                /\ last'.ret = ReturnFalse
          /\ last'.op \in RejectionHooks => NewEntry.data.kind = "rejection"
      ]_vars

\* C14: when the slot holds text that is no JSON, or JSON that is no array,
\* init discards it: it completes, the durable log holds nothing but the
\* page view init may have logged, and every later capture call completes
\* and appends its entry.
C14_MalformedSlotIsDiscarded ==
    /\ last.op \in CaptureOps => ~last.threw
    /\ PageInited => /\ IsArray(Durable)
                     /\ Len(Durable) = Len(history.created)
                     /\ \A i \in 1..Len(Durable) : Durable[i].seq >= 1

\* C16: every step leaves at most one timer active, the one batchTimer
\* names; init starts (or restarts) the timer when an endpoint is configured
\* and leaves the timers alone when none is; startBatchTimer leaves exactly
\* one timer active and does not touch the pending queue, the durable log
\* or the slot; no other operation starts or cancels a timer.
C16_AtMostOneTimer ==
    [][ /\ Cardinality(intervals') <= 1
        /\ intervals' \subseteq {batchTimer'}
        /\ last'.op = "init" =>
              IF config.apiEndpoint
              THEN intervals' = {batchTimer'} /\ batchTimer' # 0
              ELSE UNCHANGED <<batchTimer, intervals>>
        /\ last'.op = "startBatchTimer" =>
              /\ intervals' = {batchTimer'} /\ batchTimer' # 0
              /\ UNCHANGED <<pendingEntries, entries, storage>>
        /\ last'.op \notin {"init", "startBatchTimer"} =>
              UNCHANGED <<batchTimer, intervals>> ]_vars

\* the page restarted the timer that init had started, with two entries
\* queued, and one timer is active
C16_Witness ==
    /\ last.op = "startBatchTimer"
    /\ config.apiEndpoint
    /\ Len(pendingEntries) = 2
    /\ Cardinality(intervals) = 1
    /\ batchTimer \in intervals

\* the operations of the batching page / of the simple page that write the
\* slot (init of the batching page writes when it logs the page view)
BatchWrites ==
    last'.op \in {"log", "clear"} \/ (last'.op = "init" /\ config.trackPageViews)

SimpleWrites == last'.op \in {"initSimple", "info", "clearLogs"}

\* C18: with two pages sharing the slot and a working storage API, every
\* operation that writes leaves in the slot exactly the durable log of the
\* page that ran it (nothing of the other page's log survives unless the
\* writer had loaded it), and an operation that does not write leaves the
\* slot to the last writer.
C18_LastWriterWins ==
    [][ ~storage.throws =>
          /\ BatchWrites => loadFromStorage(storage') = entries'
          /\ SimpleWrites => loadFromStorage(storage') = logs'
          /\ ~(BatchWrites \/ SimpleWrites) => storage' = storage ]_vars

\* the batching page wrote last: the slot is its log, and the entry the
\* simple page had written after the batching page loaded is gone
C18_Witness ==
    /\ variant = "both"
    /\ last.op = "log"
    /\ storage.present
    /\ loadFromStorage(storage) = entries
    /\ logs # <<>>
    /\ \A i \in 1..Len(logs) : logs[i].seq \notin SeqsOf(loadFromStorage(storage))

\* a transmission that succeeds
SucceededC19(resp) == resp.net = "ok" /\ resp.status = 200 /\ resp.body = "true"

\* a step that captures nothing and in which no transmission fails
QuietStep ==
    /\ counters'.made = counters.made
    /\ Settling # {} => SucceededC19(last'.resp)

\* the creation sequences of the entries created since the page was loaded
CreatedHere == (history.loaded + 1)..(counters.seq - 1)

\* the queue is empty, no request is pending, and every entry created since
\* the load was in a batch whose request the handlers took as confirmed
Drained ==
    /\ pendingEntries = <<>>
    /\ inflight = {}
    /\ CreatedHere \subseteq history.delivered

\* C19: with an endpoint configured and the timer firing, if from some point
\* on no entry is captured and every transmission succeeds, then from some
\* point on the pending queue is empty, nothing is in flight and every
\* entry that was queued has been sent in a batch that was confirmed.
C19_QueueDrains == (<>[][QuietStep]_vars) => <>[]Drained

\* two entries were queued, a transmission failed, and the queue has drained
C19_Witness ==
    /\ Drained
    /\ last.op = "settle"
    /\ Cardinality(history.delivered) = 2
    /\ config.maxBatchSize = 1

\* the creation sequences of the entries init loaded from the slot
LoadedSeqs == 1..history.loaded

\* C21: right after init the pending queue holds nothing but the page view
\* init created (nothing when trackPageViews is off), and at no time is an
\* entry that was loaded from the slot in the pending queue, in a batch
\* handed to fetch or among the confirmed entries.
C21_LoadedEntriesNeverQueued ==
    /\ last.op = "init" =>
          /\ Len(pendingEntries) = (IF config.trackPageViews THEN 1 ELSE 0)
          /\ \A i \in 1..Len(pendingEntries) :
                /\ pendingEntries[i].type = "pageview"
                /\ pendingEntries[i].seq = counters.seq - 1
    /\ SeqsOf(pendingEntries) \cap LoadedSeqs = {}
    /\ InFlightSeqs \cap LoadedSeqs = {}
    /\ history.delivered \cap LoadedSeqs = {}

\* init loaded 99 entries and logged the page view: the durable log holds
\* 100 entries, the pending queue one
C21_Witness ==
    /\ last.op = "init"
    /\ history.loaded = MAX_ENTRIES - 1
    /\ Len(entries) = MAX_ENTRIES
    /\ Len(pendingEntries) = 1
    /\ pendingEntries[1] = entries[MAX_ENTRIES]

\* C22: when every show() so far asked for content that is not
\* pre-rendered and no request is pending, the modal body holds the answer
\* (content or error) of a request for the content id of the latest
\* show(), the id the title was set for.
C22_BodyIsLatestRequest ==
    (modal.ready /\ modal.shows > 0 /\ ~modal.pre /\ modal.fetches = {}) =>
        /\ modal.body.kind \in Outcomes
        /\ modal.body.id = modal.title

====
